---- MODULE Spec2Model ----
(***************************************************************************)
(* Model of rofi-vscode-mode: the recently-opened item model and its JSON  *)
(* codec against VSCode's state database (src/src/vscode.rs), and the rofi *)
(* mode that browses, opens and deletes those items (src/src/rofi.rs).     *)
(*                                                                         *)
(* Representation                                                          *)
(*   - A path, and a text that is shown or typed, is the sequence of its   *)
(*     components; "/" is the root component, so /home/u/proj is           *)
(*     <<"/", "home", "u", "proj">> and ~/proj is <<"~", "proj">>.         *)
(*   - A URL's text is <<scheme, host>> followed by its path segments, so  *)
(*     file:///home/u/proj is <<"file", "", "home", "u", "proj">>; a text  *)
(*     that does not start with a scheme is not a URL.  A Url value holds  *)
(*     its normalised serialization, as the url crate's Url does.          *)
(*   - A JSON value is a record tagged by t: "null", "num", "str" (s the   *)
(*     text), "arr" (a the sequence), "obj" (o the function from keys).    *)
(***************************************************************************)
EXTENDS Naturals, Sequences, FiniteSets, TLC

VARIABLES
    db,       \* the state database: [access, row]
    home,     \* dirs::home_dir(): None or Some(path)
    entries,  \* VSCodeRecentMode.entries: Vec<Recent>
    input,    \* rofi's input buffer
    phase,    \* "start", "ready", "exited", "failed"; "bin", "codec", "item", "path" in the other specifications
    ret,      \* what the last call returned
    rewritten \* history: the editor rewrote the row after Mode::init

vars == <<db, home, entries, input, phase, ret, rewritten>>

----------------------------------------------------------------------------
(* Option<T> and Result<T, E> *)

None == [some |-> FALSE]

Some(x) == [some |-> TRUE, v |-> x]

Ok(x) == [ok |-> TRUE, v |-> x]

Err(e) == [ok |-> FALSE, err |-> e]

----------------------------------------------------------------------------
(* Bounds of the model *)

\* longest `entries` array of the database a session starts from
MaxEntries == 3

\* longest `entries` array of the database a run of vscode-recent reads
MaxStored == 2

\* longest list the store's operations are applied to
MaxCodecLen == 2

\* most components after the root (or in all, for a relative path) of a path given to tildify or untildify
MaxPathLen == 3

\* longest `entries` array the editor writes, and a session beside the editor starts from
MaxEditorLen == 2

----------------------------------------------------------------------------
(* JSON values (serde_json::Value) *)

JNull == [t |-> "null"]

JNum == [t |-> "num"]

JStr(s) == [t |-> "str", s |-> s]

JArr(s) == [t |-> "arr", a |-> s]

JObj(f) == [t |-> "obj", o |-> f]

\* the empty JSON object's key map
NoFields == [k \in {} |-> JNull]

\* serde_json's Index<&str> for Value: Null unless an object holding the key
JIndex(val, key) ==
    IF val.t = "obj" /\ key \in DOMAIN val.o THEN val.o[key] ELSE JNull

\* Value::as_array
as_array(val) == IF val.t = "arr" THEN Some(val.a) ELSE None

----------------------------------------------------------------------------
(* URLs (the url crate) *)

SCHEME_FILE == "file"

SCHEME_REMOTE == "vscode-remote"

SCHEME_VIRTUAL == "vscode-vfs"

\* the scheme names a text can start with
SchemeNames == {"file", "FILE", "vscode-remote", "vscode-vfs", "vscode-userdata"}

\* ASCII lower-casing of a scheme name
Lower(s) == IF s = "FILE" THEN "file" ELSE s

\* Url::parse, as Deserialize for Url applies it to a JSON string: a text
\* that does not start with a scheme is a relative reference and is
\* rejected; the scheme is lower-cased
UrlParse(text) ==
    IF Len(text) >= 2 /\ text[1] \in SchemeNames
    THEN Ok([serialization |-> <<Lower(text[1])>> \o Tail(text)])
    ELSE Err("RelativeUrlWithoutBase")

\* Url::scheme
scheme(u) == u.serialization[1]

\* Url::host_str, "" when the URL has no host
host_str(u) == u.serialization[2]

\* Url::path_segments
path_segments(u) == SubSeq(u.serialization, 3, Len(u.serialization))

\* Url::to_file_path on Unix: only a URL with no host (or localhost) has a
\* local path, the root followed by the URL's path segments
to_file_path(u) ==
    IF host_str(u) \in {"", "localhost"}
    THEN Ok(<<"/">> \o path_segments(u))
    ELSE Err("()")

----------------------------------------------------------------------------
(* Paths: tildify and untildify *)

\* Path::strip_prefix, component-wise
strip_prefix(path, base) ==
    IF Len(base) <= Len(path) /\ SubSeq(path, 1, Len(base)) = base
    THEN Ok(SubSeq(path, Len(base) + 1, Len(path)))
    ELSE Err("StripPrefixError")

\* tildify(path), with h the answer of dirs::home_dir()
tildify(path, h) ==
    IF h.some /\ strip_prefix(path, h.v).ok
    THEN <<"~">> \o strip_prefix(path, h.v).v
    ELSE path

\* untildify(path), with h the answer of dirs::home_dir()
untildify_first(path, h) ==
    IF h.some /\ path # <<>>
    THEN h.v \o Tail(path)
    ELSE path

untildify(path, h) ==
    IF h.some /\ strip_prefix(path, <<"~">>).ok
    THEN h.v \o strip_prefix(path, <<"~">>).v
    ELSE path

----------------------------------------------------------------------------
(* workspaces::Recent and its accessors *)

Workspace(id, config_path, label, remote_authority) ==
    [variant |-> "Workspace",
     workspace |-> [id |-> id, config_path |-> config_path],
     label |-> label, remote_authority |-> remote_authority]

Folder(folder_uri, label, remote_authority) ==
    [variant |-> "Folder", folder_uri |-> folder_uri,
     label |-> label, remote_authority |-> remote_authority]

File(file_uri, label, remote_authority) ==
    [variant |-> "File", file_uri |-> file_uri,
     label |-> label, remote_authority |-> remote_authority]

\* Recent::url
url(r) ==
    CASE r.variant = "Workspace" -> r.workspace.config_path
      [] r.variant = "Folder" -> r.folder_uri
      [] r.variant = "File" -> r.file_uri

\* Recent::is_local
is_local_by_remote(r) == ~r.remote_authority.some

is_local(r) == scheme(url(r)) = SCHEME_FILE

\* Recent::remote
remote_unless_local(r) ==
    IF scheme(url(r)) = SCHEME_FILE THEN None ELSE r.remote_authority

remote(r) == r.remote_authority

\* Recent::file_path
file_path_any_scheme(r) ==
    IF to_file_path(url(r)).ok
    THEN Ok(to_file_path(url(r)).v)
    ELSE Err("Could not get path from file url")

file_path(r) ==
    IF scheme(url(r)) = SCHEME_FILE
    THEN IF to_file_path(url(r)).ok
         THEN Ok(to_file_path(url(r)).v)
         ELSE Err("Could not get path from file url")
    ELSE Err("Not a file url")

\* Recent::label, with h the answer of dirs::home_dir()
label_prefers_path(r, h) ==
    IF file_path(r).ok
    THEN Ok(tildify(file_path(r).v, h))
    ELSE IF r.label.some THEN Ok(r.label.v) ELSE Err(file_path(r).err)

label(r, h) ==
    IF r.label.some
    THEN Ok(r.label.v)
    ELSE IF file_path(r).ok
         THEN Ok(tildify(file_path(r).v, h))
         ELSE Err(file_path(r).err)

\* Recent::icon_name
icon_name(r) ==
    CASE r.variant = "Workspace" -> "visual-studio-code"
      [] r.variant = "Folder" -> "folder"
      [] r.variant = "File" -> "text-x-generic"

----------------------------------------------------------------------------
(* Serialize and Deserialize of Recent (serde, untagged, camelCase) *)

\* a field with skip_serializing_if = "Option::is_none"
SerOptField_null(key, opt) ==
    IF opt.some THEN key :> JStr(opt.v) ELSE key :> JNull

SerOptField(key, opt) ==
    IF opt.some THEN key :> JStr(opt.v) ELSE NoFields

\* Serialize for WorkspaceIdentifier
serialize_WorkspaceIdentifier(w) ==
    JObj([id |-> JStr(w.id), configPath |-> JStr(w.config_path.serialization)])

\* Serialize for Recent
serialize_Recent(r) ==
    JObj((CASE r.variant = "Workspace" ->
                "workspace" :> serialize_WorkspaceIdentifier(r.workspace)
            [] r.variant = "Folder" -> "folderUri" :> JStr(r.folder_uri.serialization)
            [] r.variant = "File" -> "fileUri" :> JStr(r.file_uri.serialization))
         @@ SerOptField("label", r.label)
         @@ SerOptField("remoteAuthority", r.remote_authority))

\* a field of type Url: present, a string, and parsable
DeUrlField(val, key) ==
    IF val.t = "obj" /\ key \in DOMAIN val.o /\ val.o[key].t = "str"
    THEN UrlParse(val.o[key].s)
    ELSE Err("missing or invalid field")

\* a field of type String
DeStringField(val, key) ==
    IF val.t = "obj" /\ key \in DOMAIN val.o /\ val.o[key].t = "str"
    THEN Ok(val.o[key].s)
    ELSE Err("missing or invalid field")

\* a field of type Option<String>: None when missing or null
DeOptStringField(val, key) ==
    IF val.t # "obj" THEN Err("invalid type")
    ELSE IF key \notin DOMAIN val.o \/ val.o[key].t = "null" THEN Ok(None)
    ELSE IF val.o[key].t = "str" THEN Ok(Some(val.o[key].s))
    ELSE Err("invalid type")

\* Deserialize for WorkspaceIdentifier
deserialize_WorkspaceIdentifier(val) ==
    IF DeStringField(val, "id").ok /\ DeUrlField(val, "configPath").ok
    THEN Ok([id |-> DeStringField(val, "id").v,
             config_path |-> DeUrlField(val, "configPath").v])
    ELSE Err("invalid workspace")

\* one variant of Recent tried on a value; unknown keys are ignored
deserialize_variant(val, variant) ==
    LET lab == DeOptStringField(val, "label")
        rem == DeOptStringField(val, "remoteAuthority")
        key == CASE variant = "Workspace" -> "workspace"
                 [] variant = "Folder" -> "folderUri"
                 [] variant = "File" -> "fileUri"
        loc == IF variant = "Workspace"
               THEN deserialize_WorkspaceIdentifier(JIndex(val, key))
               ELSE DeUrlField(val, key)
    IN  IF loc.ok /\ lab.ok /\ rem.ok
        THEN Ok(CASE variant = "Workspace" ->
                        [variant |-> "Workspace", workspace |-> loc.v,
                         label |-> lab.v, remote_authority |-> rem.v]
                  [] variant = "Folder" -> Folder(loc.v, lab.v, rem.v)
                  [] variant = "File" -> File(loc.v, lab.v, rem.v))
        ELSE Err("no match")

\* the order in which the untagged enum's variants are declared and tried
VariantOrder_reversed == <<"File", "Folder", "Workspace">>

VariantOrder == <<"Workspace", "Folder", "File">>

\* an untagged enum: the first variant of `order` that deserializes
RECURSIVE deserialize_untagged(_, _)
deserialize_untagged(val, order) ==
    IF order = <<>>
    THEN Err("data did not match any variant of untagged enum Recent")
    ELSE IF deserialize_variant(val, Head(order)).ok
         THEN deserialize_variant(val, Head(order))
         ELSE deserialize_untagged(val, Tail(order))

\* Deserialize for Recent
deserialize_Recent(val) == deserialize_untagged(val, VariantOrder)

----------------------------------------------------------------------------
(* The state database: <config_dir>/User/globalStorage/state.vscdb.        *)
(* db.access is what the file system allows: "nodir" (no configuration     *)
(* directory), "nofile" (the database cannot be opened), "ro" (it opens,   *)
(* writing fails), "rw".  db.row is the value of the history key's row:    *)
(* NoRow, NotJson (a value that is not JSON text) or the JSON value.       *)

VSCDB_HISTORY_KEY == "history.recentlyOpenedPathsList"

NoRow == [t |-> "norow"]

NotJson == [t |-> "notjson"]

\* Flavor::config_dir
config_dir(d) == IF d.access = "nodir" THEN None ELSE Some("Code")

\* open_state_db
open_state_db(d) ==
    IF d.access = "nofile" THEN Err("Could not open database") ELSE Ok(d.row)

\* the SELECT of get_history_entries, read as a serde_json::Value
query_row_optional(row) ==
    IF row = NoRow THEN Ok(JNull)
    ELSE IF row = NotJson THEN Err("FromSqlConversionFailure")
    ELSE Ok(row)

query_row(row) ==
    IF row = NoRow THEN Err("QueryReturnedNoRows")
    ELSE IF row = NotJson THEN Err("FromSqlConversionFailure")
    ELSE Ok(row)

\* the filter_map and filter over the `entries` array: an element that does
\* not deserialize is skipped, the others keep their order
RECURSIVE filter_map_entries_stop(_, _)
filter_map_entries_stop(arr, local_only) ==
    IF arr = <<>> THEN <<>>
    ELSE LET e == deserialize_Recent(Head(arr))
         IN  IF ~e.ok THEN <<>>
             ELSE IF local_only /\ ~is_local(e.v)
                  THEN filter_map_entries_stop(Tail(arr), local_only)
                  ELSE <<e.v>> \o filter_map_entries_stop(Tail(arr), local_only)

RECURSIVE filter_map_entries(_, _)
filter_map_entries(arr, local_only) ==
    IF arr = <<>> THEN <<>>
    ELSE LET e == deserialize_Recent(Head(arr))
             rest == filter_map_entries(Tail(arr), local_only)
         IN  IF e.ok /\ (~local_only \/ is_local(e.v))
             THEN <<e.v>> \o rest
             ELSE rest

\* workspaces::get_history_entries
get_history_entries(d, local_only) ==
    IF ~open_state_db(d).ok THEN Err(open_state_db(d).err)
    ELSE IF ~query_row(d.row).ok THEN Err(query_row(d.row).err)
    ELSE IF ~as_array(JIndex(query_row(d.row).v, "entries")).some
         THEN Err("History object's entries attribute is not an array")
    ELSE Ok(filter_map_entries(as_array(JIndex(query_row(d.row).v, "entries")).v,
                               local_only))

\* workspaces::recently_opened_from_storage
recently_opened_from_storage(d, local_only) ==
    IF ~config_dir(d).some
    THEN Err("Could not find configuration directory")
    ELSE get_history_entries(d, local_only)

\* json!({"entries": entries})
entries_json(list) ==
    JObj("entries" :> JArr([i \in 1..Len(list) |-> serialize_Recent(list[i])]))

\* the UPDATE of store_recently_opened: it changes the row whose key is the
\* history key, and no row when there is none
update_row(row, value) == IF row = NoRow THEN NoRow ELSE value

\* workspaces::store_recently_opened: the result and the database after it
store_recently_opened(d, list) ==
    IF ~config_dir(d).some
    THEN [res |-> Err("Could not find configuration directory"), db |-> d]
    ELSE IF ~open_state_db(d).ok
    THEN [res |-> Err(open_state_db(d).err), db |-> d]
    ELSE IF d.access # "rw"
    THEN [res |-> Err("Could not update state in DB"), db |-> d]
    ELSE [res |-> Ok("()"),
          db |-> [d EXCEPT !.row = update_row(d.row, entries_json(list))]]

----------------------------------------------------------------------------
(* Launching the editor (Flavor::open_recent, Flavor::open_local_path).    *)
(* spawn_ok is whether Command::output could run the flavor's command.     *)

\* Flavor::open_recent: the arguments given to the command, and the result
open_recent_by_locality(r, spawn_ok) ==
    [argv |-> IF is_local(r) /\ file_path(r).ok
              THEN <<file_path(r).v>>
              ELSE <<IF r.variant = "Folder" THEN "--folder-uri" ELSE "--file-uri",
                     url(r).serialization>>,
     res |-> IF spawn_ok THEN Ok("()") ELSE Err("Could not open entry")]

open_recent(r, spawn_ok) ==
    [argv |-> CASE r.variant = "Workspace" -> <<"--file-uri", url(r).serialization>>
                [] r.variant = "Folder" -> <<"--folder-uri", url(r).serialization>>
                [] r.variant = "File" -> <<"--file-uri", url(r).serialization>>,
     res |-> IF spawn_ok THEN Ok("()") ELSE Err("Could not open entry")]

\* Flavor::open_local_path
open_local_path(path, spawn_ok) ==
    [argv |-> <<path>>,
     res |-> IF spawn_ok THEN Ok("()") ELSE Err("Could not execute VSCode")]

----------------------------------------------------------------------------
(* The rofi mode VSCodeRecentMode.  Indices are counted from 0, as rofi    *)
(* gives them; the list's i-th entry is list[i + 1].                       *)

\* Vec::remove(index)
remove(list, index) ==
    [k \in 1..(Len(list) - 1) |-> IF k <= index THEN list[k] ELSE list[k + 1]]

\* Vec::swap_remove(index): the last element takes the removed one's place
swap_remove(list, index) ==
    [k \in 1..(Len(list) - 1) |-> IF k = index + 1 THEN list[Len(list)] ELSE list[k]]

\* rofi's Matcher::matches: every token of the query occurs in the text
matcher_matches(matcher, text) ==
    \A k \in 1..Len(matcher) : \E j \in 1..Len(text) : text[j] = matcher[k]

\* Mode::entries
entries_count(list) == Len(list)

\* Mode::entry_content
entry_content_raw(list, h, line) ==
    IF label(list[line + 1], h).ok
    THEN label(list[line + 1], h).v
    ELSE url(list[line + 1]).serialization

entry_content(list, h, line) ==
    IF label(list[line + 1], h).ok
    THEN label(list[line + 1], h).v
    ELSE <<>>

\* Mode::matches
matches(list, h, line, matcher) ==
    IF label(list[line + 1], h).ok
    THEN matcher_matches(matcher, label(list[line + 1], h).v)
    ELSE FALSE

\* what a branch of react hands to its error handling: the mode's entries,
\* the database and the input buffer after it, the command it ran (if any)
\* and its Result<Action>
Branch(list, d, inp, spawn, res) ==
    [entries |-> list, db |-> d, input |-> inp, spawn |-> spawn, res |-> res]

\* react, Event::Cancel
react_Cancel(list, d, inp) == Branch(list, d, inp, None, Ok("Exit"))

\* react, Event::Ok
react_Ok_touch(list, d, inp, selected, spawn_ok) ==
    LET o == open_recent(list[selected + 1], spawn_ok)
    IN  Branch(<<list[selected + 1]>> \o remove(list, selected), d, inp, Some(o.argv),
               IF o.res.ok THEN Ok("Exit") ELSE Err(o.res.err))

react_Ok(list, d, inp, selected, spawn_ok) ==
    LET o == open_recent(list[selected + 1], spawn_ok)
    IN  Branch(list, d, inp, Some(o.argv),
               IF o.res.ok THEN Ok("Exit") ELSE Err(o.res.err))

\* react, Event::CustomInput
react_CustomInput(list, d, inp, h, spawn_ok) ==
    LET o == open_local_path(untildify(inp, h), spawn_ok)
    IN  Branch(list, d, inp, Some(o.argv),
               IF o.res.ok THEN Ok("Exit") ELSE Err(o.res.err))

\* react, Event::Complete; selected is an Option<usize>
react_Complete_clear(list, d, inp, h, selected) ==
    Branch(list, d,
           IF selected.some /\ label(list[selected.v + 1], h).ok
           THEN label(list[selected.v + 1], h).v
           ELSE <<>>,
           None, Ok("Reset"))

react_Complete(list, d, inp, h, selected) ==
    Branch(list, d,
           IF selected.some /\ label(list[selected.v + 1], h).ok
           THEN label(list[selected.v + 1], h).v
           ELSE inp,
           None, Ok("Reset"))

\* react, Event::DeleteEntry
react_DeleteEntry_swap(list, d, inp, selected) ==
    LET st == store_recently_opened(d, swap_remove(list, selected))
    IN  Branch(swap_remove(list, selected), st.db, inp, None,
               IF st.res.ok THEN Ok("Reload") ELSE Err(st.res.err))

react_DeleteEntry_rollback(list, d, inp, selected) ==
    LET st == store_recently_opened(d, remove(list, selected))
    IN  Branch(IF st.res.ok THEN remove(list, selected) ELSE list, st.db, inp, None,
               IF st.res.ok THEN Ok("Reload") ELSE Err(st.res.err))

react_DeleteEntry_in_store(list, d, inp, selected) ==
    LET raw == as_array(JIndex(d.row, "entries")).v
        decodable == {k \in 1..Len(raw) : deserialize_Recent(raw[k]).ok}
        m == CHOOSE k \in decodable :
                 Cardinality({j \in decodable : j < k}) = selected
        ok == d.access = "rw"
    IN  Branch(remove(list, selected),
               IF ok THEN [d EXCEPT !.row = JObj("entries" :> JArr(remove(raw, m - 1)))]
               ELSE d,
               inp, None,
               IF ok THEN Ok("Reload") ELSE Err("Could not update state in DB"))

react_DeleteEntry_reread(list, d, inp, selected) ==
    LET cur == recently_opened_from_storage(d, FALSE)
        fresh == IF cur.ok /\ selected < Len(cur.v)
                 THEN remove(cur.v, selected)
                 ELSE remove(list, selected)
        st == store_recently_opened(d, fresh)
    IN  Branch(fresh, st.db, inp, None,
               IF st.res.ok THEN Ok("Reload") ELSE Err(st.res.err))

react_DeleteEntry(list, d, inp, selected) ==
    LET st == store_recently_opened(d, remove(list, selected))
    IN  Branch(remove(list, selected), st.db, inp, None,
               IF st.res.ok THEN Ok("Reload") ELSE Err(st.res.err))

\* react, Event::CustomCommand
react_CustomCommand(list, d, inp) ==
    Branch(list, d, inp, None, Err("Command not supported"))

\* react's error handling: the Action it returns
handle_errors_retry(res) == IF res.ok THEN res.v ELSE "Reset"

handle_errors(res) == IF res.ok THEN res.v ELSE "Exit"

----------------------------------------------------------------------------
(* The values the model draws from *)

Home == <<"/", "home", "u">>

Homes == {None, Some(Home)}

UrlLocal == <<"file", "", "home", "u", "proj">>

UrlOutside == <<"file", "", "srv", "data.code-workspace">>

UrlHost == <<"file", "nas", "share">>

UrlRemote == <<"vscode-remote", "ssh-remote+box", "home", "u", "proj">>

UrlUserData == <<"vscode-userdata", "", "home", "u", "notes">>

UrlUpper == <<"FILE", "", "home", "u", "proj">>

UrlNoScheme == <<"home", "u", "proj">>

LabelText == <<"My Project">>

RemoteText == <<"ssh-remote+box">>

\* elements of the stored `entries` array
ElemFolderLocal == JObj("folderUri" :> JStr(UrlLocal))

ElemFileRemote ==
    JObj("fileUri" :> JStr(UrlRemote) @@ "label" :> JStr(<<"notes", "[SSH: box]">>)
         @@ "remoteAuthority" :> JStr(RemoteText))

ElemWorkspace ==
    JObj("workspace" :> JObj("id" :> JStr(<<"w1">>) @@ "configPath" :> JStr(UrlOutside))
         @@ "label" :> JStr(LabelText))

ElemFolderRemote ==
    JObj("folderUri" :> JStr(UrlRemote) @@ "remoteAuthority" :> JStr(RemoteText))

ElemFileHost == JObj("fileUri" :> JStr(UrlHost))

ElemUnknown == JObj("path" :> JStr(<<"x">>))

ElemNumber == JNum

ElemNoScheme == JObj("folderUri" :> JStr(UrlNoScheme))

ElemUpper == JObj("fileUri" :> JStr(UrlUpper) @@ "label" :> JNull)

ElemNumLabel == JObj("folderUri" :> JStr(UrlLocal) @@ "label" :> JNum)

ElemFolderAndFile ==
    JObj("folderUri" :> JStr(UrlLocal) @@ "fileUri" :> JStr(UrlOutside))

ElemWorkspaceNoId ==
    JObj("workspace" :> JObj("configPath" :> JStr(UrlOutside))
         @@ "folderUri" :> JStr(UrlRemote))

ElemLocalWithRemote ==
    JObj("folderUri" :> JStr(UrlOutside) @@ "remoteAuthority" :> JStr(RemoteText))

SessionElems ==
    {ElemFolderLocal, ElemFileRemote, ElemWorkspace, ElemFolderRemote, ElemUnknown}

BinElems ==
    SessionElems \cup
    {ElemFileHost, ElemNumber, ElemNoScheme, ElemUpper, ElemNumLabel,
     ElemFolderAndFile, ElemWorkspaceNoId, ElemLocalWithRemote}

\* the sequences over S of length at most n
SeqsUpTo(S, n) == UNION {[1..k -> S] : k \in 0..n}

\* the values the history key's row can have, with arrays over `elems`
Rows(elems, n) ==
    {NoRow, NotJson, JNum, JObj(NoFields), JObj("entries" :> JStr(<<"x">>))}
    \cup {JObj("entries" :> JArr(a)) : a \in SeqsUpTo(elems, n)}

Accesses == {"nodir", "nofile", "ro", "rw"}

\* decoded items: every variant, with label and remote authority present or not
ItemsOver(urls) ==
    {Workspace(<<"w1">>, [serialization |-> u], l, ra) :
        u \in urls, l \in {None, Some(LabelText)}, ra \in {None, Some(RemoteText)}}
    \cup {Folder([serialization |-> u], l, ra) :
        u \in urls, l \in {None, Some(LabelText)}, ra \in {None, Some(RemoteText)}}
    \cup {File([serialization |-> u], l, ra) :
        u \in urls, l \in {None, Some(LabelText)}, ra \in {None, Some(RemoteText)}}

Inputs == {<<>>, <<"~", "proj">>}

Matchers == {<<>>, <<"proj">>}

OutputFormats == {"Label", "AbsolutePath", "Uri"}

----------------------------------------------------------------------------
(* The rofi session: one process that loads the list once and then answers *)
(* rofi's calls until react returns Action::Exit.                          *)

NoCall == [op |-> "none"]

Init ==
    /\ db \in [access : Accesses, row : Rows(SessionElems, MaxEntries)]
    /\ home = Some(Home)
    /\ entries = <<>>
    /\ input = <<>>
    /\ phase = "start"
    /\ ret = NoCall
    /\ rewritten = FALSE

\* Mode::init: the mode exists only if the history could be read
ModeInit ==
    /\ phase = "start"
    /\ LET r == recently_opened_from_storage(db, FALSE)
       IN  /\ entries' = IF r.ok THEN r.v ELSE <<>>
           /\ phase' = IF r.ok THEN "ready" ELSE "failed"
           /\ ret' = [op |-> "init", res |-> r]
    /\ UNCHANGED <<db, home, input, rewritten>>

\* the user edits the input line
UserTypes(text) ==
    /\ phase = "ready"
    /\ input' = text
    /\ ret' = [op |-> "input"]
    /\ UNCHANGED <<db, home, entries, phase, rewritten>>

\* Mode::entries
ModeEntries ==
    /\ phase = "ready"
    /\ ret' = [op |-> "entries", out |-> entries_count(entries)]
    /\ UNCHANGED <<db, home, entries, input, phase, rewritten>>

\* Mode::entry_content
ModeEntryContent(line) ==
    /\ phase = "ready"
    /\ ret' = [op |-> "entry_content", line |-> line,
               out |-> entry_content(entries, home, line)]
    /\ UNCHANGED <<db, home, entries, input, phase, rewritten>>

\* Mode::matches
ModeMatches(line, matcher) ==
    /\ phase = "ready"
    /\ ret' = [op |-> "matches", line |-> line, matcher |-> matcher,
               out |-> matches(entries, home, line, matcher)]
    /\ UNCHANGED <<db, home, entries, input, phase, rewritten>>

\* Mode::react on event ev, whose branch gave b
React(ev, b) ==
    /\ phase = "ready"
    /\ entries' = b.entries
    /\ db' = b.db
    /\ input' = b.input
    /\ phase' = IF handle_errors(b.res) = "Exit" THEN "exited" ELSE "ready"
    /\ ret' = [op |-> "react", event |-> ev, action |-> handle_errors(b.res),
               res |-> b.res, spawn |-> b.spawn]
    /\ UNCHANGED <<home, rewritten>>

EventCancel ==
    React([kind |-> "Cancel"], react_Cancel(entries, db, input))

EventOk(selected, spawn_ok) ==
    React([kind |-> "Ok", selected |-> selected],
          react_Ok(entries, db, input, selected, spawn_ok))

EventCustomInput(spawn_ok) ==
    React([kind |-> "CustomInput"],
          react_CustomInput(entries, db, input, home, spawn_ok))

EventComplete(selected) ==
    React([kind |-> "Complete", selected |-> selected],
          react_Complete(entries, db, input, home, selected))

EventDeleteEntry(selected) ==
    React([kind |-> "DeleteEntry", selected |-> selected],
          react_DeleteEntry(entries, db, input, selected))

EventCustomCommand ==
    React([kind |-> "CustomCommand"], react_CustomCommand(entries, db, input))

\* the lines rofi can name: 0 .. entries() - 1
Lines == 0..(Len(entries) - 1)

Next ==
    \/ ModeInit
    \/ \E text \in Inputs : UserTypes(text)
    \/ ModeEntries
    \/ \E line \in Lines : ModeEntryContent(line)
    \/ \E line \in Lines, matcher \in Matchers : ModeMatches(line, matcher)
    \/ EventCancel
    \/ \E line \in Lines, spawn_ok \in BOOLEAN : EventOk(line, spawn_ok)
    \/ \E spawn_ok \in BOOLEAN : EventCustomInput(spawn_ok)
    \/ \E selected \in {None} \cup {Some(line) : line \in Lines} : EventComplete(selected)
    \/ \E line \in Lines : EventDeleteEntry(line)
    \/ EventCustomCommand

Spec == Init /\ [][Next]_vars

----------------------------------------------------------------------------
(* The session beside the editor.  VSCode is another process that rewrites *)
(* the history row of the same state.vscdb whenever it likes; the mode     *)
(* opens the database anew for each read and write (open_state_db) and     *)
(* keeps no connection or lock between its calls.                          *)

UrlEditor == <<"file", "", "home", "u", "new">>

\* a folder that only the editor adds to the history
ElemEditor == JObj("folderUri" :> JStr(UrlEditor))

EditorElems == {ElemFolderLocal, ElemFileRemote, ElemEditor}

\* the rows the editor writes
EditorRows == {JObj("entries" :> JArr(a)) : a \in SeqsUpTo(EditorElems, MaxEditorLen)}

InitEditor ==
    /\ db \in [access : {"ro", "rw"},
               row : {JObj("entries" :> JArr(a)) :
                         a \in SeqsUpTo({ElemFolderLocal, ElemFileRemote, ElemUnknown},
                                        MaxEditorLen)}]
    /\ home = Some(Home)
    /\ entries = <<>>
    /\ input = <<>>
    /\ phase = "start"
    /\ ret = NoCall
    /\ rewritten = FALSE

\* the editor rewrites the history row while the session is open
EditorRewrites(row) ==
    /\ phase = "ready"
    /\ db' = [db EXCEPT !.row = row]
    /\ rewritten' = TRUE
    /\ ret' = [op |-> "editor"]
    /\ UNCHANGED <<home, entries, input, phase>>

NextEditor ==
    \/ Next
    \/ \E row \in EditorRows : EditorRewrites(row)

SpecEditor == InitEditor /\ [][NextEditor]_vars

----------------------------------------------------------------------------
(* The vscode-recent binary (src/src/bin/vscode-recent.rs): each run reads *)
(* the history and prints one line per entry it can format.                *)

\* format_entry
format_entry(r, h, output_format) ==
    CASE output_format = "Label" -> label(r, h)
      [] output_format = "AbsolutePath" -> file_path(r)
      [] output_format = "Uri" -> Ok(url(r).serialization)

\* main's choice of local_only
local_only_for(output_format) == output_format # "Uri"

\* main's loop: the lines printed, one per entry that formats
RECURSIVE print_entries(_, _, _)
print_entries(list, h, output_format) ==
    IF list = <<>> THEN <<>>
    ELSE LET f == format_entry(Head(list), h, output_format)
             rest == print_entries(Tail(list), h, output_format)
         IN  IF f.ok THEN <<f.v>> \o rest ELSE rest

InitBin ==
    /\ db \in [access : Accesses, row : Rows(BinElems, MaxStored)]
    /\ home = Some(Home)
    /\ entries = <<>>
    /\ input = <<>>
    /\ phase = "bin"
    /\ ret = NoCall
    /\ rewritten = FALSE

\* main
BinMain(output_format) ==
    /\ phase = "bin"
    /\ LET r == recently_opened_from_storage(db, local_only_for(output_format))
       IN  /\ entries' = IF r.ok THEN r.v ELSE <<>>
           /\ ret' = [op |-> "main", output_format |-> output_format,
                      local_only |-> local_only_for(output_format), res |-> r,
                      stdout |-> IF r.ok THEN print_entries(r.v, home, output_format)
                                 ELSE <<>>]
    /\ UNCHANGED <<db, home, input, phase, rewritten>>

NextBin == \E output_format \in OutputFormats : BinMain(output_format)

SpecBin == InitBin /\ [][NextBin]_vars

----------------------------------------------------------------------------
(* The store's two operations applied to any list and any database: the    *)
(* list written is `entries`.                                              *)

CodecItems == ItemsOver({UrlLocal, UrlRemote})

CodecRows ==
    {NoRow, NotJson, JObj(NoFields), JObj("entries" :> JArr(<<>>)),
     JObj("entries" :> JArr(<<ElemFolderLocal, ElemUnknown>>))}

InitCodec ==
    /\ db \in [access : {"nofile", "ro", "rw"}, row : CodecRows]
    /\ home = Some(Home)
    /\ entries \in SeqsUpTo(CodecItems, MaxCodecLen)
    /\ input = <<>>
    /\ phase = "codec"
    /\ ret = NoCall
    /\ rewritten = FALSE

\* store_recently_opened(flavor, entries)
CodecStore ==
    /\ phase = "codec"
    /\ LET st == store_recently_opened(db, entries)
       IN  /\ db' = st.db
           /\ ret' = [op |-> "store", res |-> st.res]
    /\ UNCHANGED <<home, entries, input, phase, rewritten>>

\* recently_opened_from_storage(flavor, false), after the call `ret` tells of
CodecRead ==
    /\ phase = "codec"
    /\ ret.op # "read"
    /\ ret' = [op |-> "read", after |-> ret,
               res |-> recently_opened_from_storage(db, FALSE)]
    /\ UNCHANGED <<db, home, entries, input, phase, rewritten>>

NextCodec == CodecStore \/ CodecRead

SpecCodec == InitCodec /\ [][NextCodec]_vars

----------------------------------------------------------------------------
(* The accessors of one Recent, entries[1], under any home directory.      *)

AllItems == ItemsOver({UrlLocal, UrlOutside, UrlHost, UrlRemote, UrlUserData})

InitItem ==
    /\ db = [access |-> "nodir", row |-> NoRow]
    /\ home \in Homes
    /\ entries \in {<<r>> : r \in AllItems}
    /\ input = <<>>
    /\ phase = "item"
    /\ ret = NoCall
    /\ rewritten = FALSE

ItemCall(op, res) ==
    /\ phase = "item"
    /\ ret' = [op |-> op, res |-> res]
    /\ UNCHANGED <<db, home, entries, input, phase, rewritten>>

ItemLabel == ItemCall("label", label(entries[1], home))

ItemFilePath == ItemCall("file_path", file_path(entries[1]))

ItemIsLocal == ItemCall("is_local", is_local(entries[1]))

ItemRemote == ItemCall("remote", remote(entries[1]))

NextItem == ItemLabel \/ ItemFilePath \/ ItemIsLocal \/ ItemRemote

SpecItem == InitItem /\ [][NextItem]_vars

----------------------------------------------------------------------------
(* tildify and untildify applied to any path under any home directory: the *)
(* current text is `input`, and each call's result becomes the text; `ret` *)
(* tells the call, its argument, its result and the call before it.        *)

PathNames == {"home", "u", "proj", "~"}

\* relative and absolute paths, as their components
Paths ==
    SeqsUpTo(PathNames, MaxPathLen)
    \cup {<<"/">> \o s : s \in SeqsUpTo(PathNames, MaxPathLen)}

InitPath ==
    /\ db = [access |-> "nodir", row |-> NoRow]
    /\ home \in Homes
    /\ entries = <<>>
    /\ input \in Paths
    /\ phase = "path"
    /\ ret = NoCall
    /\ rewritten = FALSE

PathCall(op, res) ==
    /\ phase = "path"
    /\ input' = res
    /\ ret' = [op |-> op, arg |-> input, res |-> res, after |-> ret.op]
    /\ UNCHANGED <<db, home, entries, phase, rewritten>>

PathTildify == PathCall("tildify", tildify(input, home))

PathUntildify == PathCall("untildify", untildify(input, home))

NextPath == PathTildify \/ PathUntildify

SpecPath == InitPath /\ [][NextPath]_vars

----------------------------------------------------------------------------
(* Properties of the session (Spec) *)

\* the step is react on a DeleteEntry event
DeleteStep == ret'.op = "react" /\ ret'.event.kind = "DeleteEntry"

\* `short` is `long` without its element at index i (from 0), order kept
WithoutIndex(short, long, i) ==
    /\ Len(short) = Len(long) - 1
    /\ \A k \in 1..Len(short) : short[k] = IF k <= i THEN long[k] ELSE long[k + 1]

\* C1: a successful delete of line i (react returns Reload) leaves the
\* in-memory list equal to the list before it with exactly the i-th element
\* removed and the others in their order; the history row then holds exactly
\* {"entries": that remainder}, and reading the history back (local_only =
\* false) returns that remainder.
C1_DeleteRemovesAndPersists ==
    [][(DeleteStep /\ ret'.action = "Reload") =>
          LET stored == JIndex(db'.row, "entries")
          IN  /\ WithoutIndex(entries', entries, ret'.event.selected)
              /\ db'.row.t = "obj" /\ DOMAIN db'.row.o = {"entries"}
              /\ stored.t = "arr" /\ Len(stored.a) = Len(entries')
              /\ \A k \in 1..Len(entries') :
                    deserialize_Recent(stored.a[k]) = Ok(entries'[k])
              /\ recently_opened_from_storage(db', FALSE) = Ok(entries')]_vars

\* C1's case: the middle one of three entries was deleted
C1_Witness ==
    /\ ret.op = "react" /\ ret.event.kind = "DeleteEntry" /\ ret.action = "Reload"
    /\ ret.event.selected = 1
    /\ Len(entries) = 2
    /\ phase = "ready"

\* C2: when the store write of a delete fails, the i-th element is removed
\* from the in-memory list all the same, the database is unchanged, react
\* returns Exit, and the history still reads as the list before the delete,
\* so the list and the store differ by exactly the deleted element.
C2_FailedDeleteNotRolledBack ==
    [][(DeleteStep /\ ~ret'.res.ok) =>
          LET old == recently_opened_from_storage(db', FALSE)
          IN  /\ WithoutIndex(entries', entries, ret'.event.selected)
              /\ db' = db
              /\ ret'.action = "Exit" /\ phase' = "exited"
              /\ old.ok /\ WithoutIndex(entries', old.v, ret'.event.selected)]_vars

\* C2's case: a delete whose write failed, in a list of at least two entries
C2_Witness ==
    /\ ret.op = "react" /\ ret.event.kind = "DeleteEntry" /\ ~ret.res.ok
    /\ ret.action = "Exit"
    /\ Len(entries) >= 1
    /\ recently_opened_from_storage(db, FALSE).ok
    /\ Len(recently_opened_from_storage(db, FALSE).v) = Len(entries) + 1

----------------------------------------------------------------------------
(* Properties of the store's operations (SpecCodec) *)

\* C3: whatever the database held (also no row for the history key), when
\* store_recently_opened returns Ok then the read that follows it at once
\* (local_only = false) returns the list that was written.
C3_WriteThenReadReturnsWritten ==
    (ret.op = "read" /\ ret.after.op = "store" /\ ret.after.res.ok)
        => ret.res = Ok(entries)

\* the `entries` array of the history row, when the row holds one
StoredArray == IF db.row.t = "obj" THEN as_array(JIndex(db.row, "entries")) ELSE None

\* C4: what the store wrote for a list of Recent values decodes to that
\* list, element by element (same order, variant and fields), and a label or
\* remote authority that is absent is left out of the element, not written
\* as null.
C4_EncodeDecodeRoundTrip ==
    (ret.op = "store" /\ ret.res.ok /\ db.row # NoRow) =>
        /\ StoredArray.some
        /\ Len(StoredArray.v) = Len(entries)
        /\ \A i \in 1..Len(entries) :
              /\ deserialize_Recent(StoredArray.v[i]) = Ok(entries[i])
              /\ "label" \in DOMAIN StoredArray.v[i].o <=> entries[i].label.some
              /\ "remoteAuthority" \in DOMAIN StoredArray.v[i].o
                    <=> entries[i].remote_authority.some
              /\ \A key \in DOMAIN StoredArray.v[i].o : StoredArray.v[i].o[key] # JNull

\* C4's case: a Workspace without label and remote authority, then an item
\* of another variant that has both, were written
C4_Witness ==
    /\ ret.op = "store" /\ ret.res.ok /\ db.row # NoRow
    /\ Len(entries) = 2
    /\ entries[1].variant = "Workspace"
    /\ ~entries[1].label.some /\ ~entries[1].remote_authority.some
    /\ entries[2].variant = "File"
    /\ entries[2].label.some /\ entries[2].remote_authority.some

----------------------------------------------------------------------------
(* Properties of reading the history (SpecBin) *)

\* the element has one of the three variants' shapes
MatchesAShape(e) ==
    \E variant \in {"Workspace", "Folder", "File"} : deserialize_variant(e, variant).ok

\* the locator of an element that has a shape is a file URL
HasFileLocator(e) == scheme(url(deserialize_Recent(e).v)) = SCHEME_FILE

\* `list` is the decoding of exactly the elements of arr whose index is in
\* idx, in arr's order
DecodesExactly(list, arr, idx) ==
    /\ Len(list) = Cardinality(idx)
    /\ \A k \in idx :
          list[Cardinality({m \in idx : m < k}) + 1] = deserialize_Recent(arr[k]).v

\* the run could open the database and found an `entries` array in the row
ReadHadArray == db.access \in {"ro", "rw"} /\ StoredArray.some

\* C5: reading with local_only = false never fails because of an element:
\* an element with none of the three shapes is dropped, and the result is
\* the decodable elements in the array's order.
C5_UndecodableDropped ==
    (ret.op = "main" /\ ~ret.local_only /\ ReadHadArray) =>
        /\ ret.res.ok
        /\ DecodesExactly(ret.res.v, StoredArray.v,
                          {k \in 1..Len(StoredArray.v) : MatchesAShape(StoredArray.v[k])})

\* C5's case: an element of no shape, then a well-formed Folder
C5_Witness ==
    /\ ret.op = "main" /\ ~ret.local_only /\ ReadHadArray
    /\ Len(StoredArray.v) = 2
    /\ ~MatchesAShape(StoredArray.v[1])
    /\ ret.res.ok /\ Len(ret.res.v) = 1 /\ ret.res.v[1].variant = "Folder"

\* C6: with local_only = true the read returns exactly the decodable
\* elements whose locator's scheme is `file`, in store order; with
\* local_only = false it leaves out no decodable element, local or not.
C6_LocalOnlyFilter ==
    (ret.op = "main" /\ ReadHadArray) =>
        LET arr == StoredArray.v
            decodable == {k \in 1..Len(arr) : MatchesAShape(arr[k])}
        IN  /\ ret.res.ok
            /\ ret.local_only =>
                  DecodesExactly(ret.res.v, arr,
                                 {k \in decodable : HasFileLocator(arr[k])})
            /\ ~ret.local_only => Len(ret.res.v) = Cardinality(decodable)

\* C6's case: a local entry and a remote one, read with local_only = true
C6_Witness ==
    /\ ret.op = "main" /\ ret.local_only /\ ReadHadArray
    /\ Len(StoredArray.v) = 2
    /\ MatchesAShape(StoredArray.v[1]) /\ HasFileLocator(StoredArray.v[1])
    /\ MatchesAShape(StoredArray.v[2]) /\ ~HasFileLocator(StoredArray.v[2])
    /\ ret.res.ok /\ Len(ret.res.v) = 1

\* the error kinds the specification names, as the errors the code raises
KeyNotFound == "QueryReturnedNoRows"

Corrupt == "FromSqlConversionFailure"

SchemaError == "History object's entries attribute is not an array"

\* C7: a read of a database that opens fails, and returns no list, with
\* KeyNotFound when the history row is absent, Corrupt when its value is not
\* JSON, SchemaError when the JSON has no top-level `entries` array; the
\* database is left as it was.
C7_ReadFailures ==
    [][(ret'.op = "main" /\ db.access \in {"ro", "rw"}) =>
          /\ db' = db
          /\ db.row = NoRow => ret'.res = Err(KeyNotFound)
          /\ db.row = NotJson => ret'.res = Err(Corrupt)
          /\ (db.row \notin {NoRow, NotJson} /\ ~StoredArray.some)
                => ret'.res = Err(SchemaError)
          /\ ~ret'.res.ok => (entries' = <<>> /\ ret'.stdout = <<>>)]_vars

\* C7's case: the row's value is not JSON and the read failed
C7_Witness ==
    /\ ret.op = "main" /\ db.access = "rw" /\ db.row = NotJson
    /\ ~ret.res.ok /\ ret.res.err = Corrupt

----------------------------------------------------------------------------
(* Properties of the accessors of a Recent (SpecItem) *)

\* C8 as stated: label() returns the stored label when there is one, also
\* for a locator that is not a file URL; with no stored label it returns the
\* tildified path of every `file` locator and fails for every other scheme.
C8_LabelAsStated ==
    ret.op = "label" =>
        IF entries[1].label.some
        THEN ret.res = Ok(entries[1].label.v)
        ELSE IF scheme(url(entries[1])) = SCHEME_FILE
             THEN ret.res = Ok(tildify(<<"/">> \o path_segments(url(entries[1])), home))
             ELSE ~ret.res.ok

\* C8, amended: label() returns the stored label when there is one; with no
\* stored label it returns tildify(file_path()) when file_path() succeeds
\* and fails when file_path() fails, which is the case for every scheme
\* other than `file` and for a `file` URL that has no local path (one that
\* names a host).
C8_LabelOrTildifiedPath ==
    ret.op = "label" =>
        IF entries[1].label.some
        THEN ret.res = Ok(entries[1].label.v)
        ELSE IF scheme(url(entries[1])) = SCHEME_FILE /\ to_file_path(url(entries[1])).ok
             THEN ret.res = Ok(tildify(<<"/">> \o path_segments(url(entries[1])), home))
             ELSE ~ret.res.ok

\* C8's case: a Folder with no label at file:///home/u/proj, home /home/u
C8_Witness ==
    /\ ret.op = "label"
    /\ entries[1].variant = "Folder" /\ ~entries[1].label.some
    /\ url(entries[1]).serialization = UrlLocal
    /\ home = Some(Home)
    /\ ret.res = Ok(<<"~", "proj">>)

\* C9: file_path() succeeds only for a locator whose scheme is `file`, and
\* then returns the URL's path as a filesystem path; for every other scheme
\* it fails and returns no path.
C9_FilePathOnlyForFile ==
    ret.op = "file_path" =>
        /\ ret.res.ok =>
              /\ scheme(url(entries[1])) = SCHEME_FILE
              /\ ret.res.v = <<"/">> \o path_segments(url(entries[1]))
        /\ scheme(url(entries[1])) # SCHEME_FILE => ret.res = Err("Not a file url")

\* C9's case: a locator of another scheme, with no host
C9_Witness ==
    /\ ret.op = "file_path"
    /\ url(entries[1]).serialization = UrlUserData
    /\ ~ret.res.ok

----------------------------------------------------------------------------
(* Properties of the session's queries (Spec) *)

\* C10: entry_content(i) is the entry's label when label() succeeds and the
\* empty string when it fails, and matches(i, q) is false when label()
\* fails; both return to rofi with the list, the database and the input as
\* they were and the session still open.
C10_DisplayAndMatchSwallowLabelErrors ==
    [][(ret'.op \in {"entry_content", "matches"}) =>
          LET l == label(entries[ret'.line + 1], home)
          IN  /\ entries' = entries /\ db' = db /\ input' = input
              /\ phase' = "ready"
              /\ ret'.op = "entry_content" => ret'.out = IF l.ok THEN l.v ELSE <<>>
              /\ ret'.op = "matches" =>
                    ret'.out = (l.ok /\ matcher_matches(ret'.matcher, l.v))]_vars

\* C10's case: an entry whose label fails is shown empty, in a list that has
\* an entry whose label succeeds
C10_Witness ==
    /\ ret.op = "entry_content" /\ ret.out = <<>>
    /\ ~label(entries[ret.line + 1], home).ok
    /\ \E k \in 1..Len(entries) : label(entries[k], home).ok

----------------------------------------------------------------------------
(* Properties of react's events (Spec) *)

\* the last call was react on an event of this kind
Reacted(kind) == ret.op = "react" /\ ret.event.kind = kind

\* C11 as stated: selecting line i launches the editor by the item's
\* locality: for a local item (scheme file) with the bare filesystem path
\* the item resolves to, for any other item with a flag and the item's URL.
C11_SelectByLocality ==
    Reacted("Ok") =>
        LET r == entries[ret.event.selected + 1]
        IN  /\ ret.spawn.some
            /\ IF is_local(r)
               THEN file_path(r).ok /\ ret.spawn.v = <<file_path(r).v>>
               ELSE Len(ret.spawn.v) = 2 /\ ret.spawn.v[2] = url(r).serialization

\* C11: selecting line i launches the editor with exactly two arguments
\* whatever the item's locality: the flag of the item's variant
\* (--folder-uri for a Folder, --file-uri for a File and for a Workspace)
\* and the item's URL; no filesystem path is resolved and the remote
\* authority is not passed.
C11_SelectOpensByUri ==
    Reacted("Ok") =>
        LET r == entries[ret.event.selected + 1]
        IN  ret.spawn =
                Some(<<IF r.variant = "Folder" THEN "--folder-uri" ELSE "--file-uri",
                       url(r).serialization>>)

\* C11's case: a local folder was selected and opened by its URL
C11_Witness ==
    /\ Reacted("Ok") /\ ret.res.ok
    /\ is_local(entries[ret.event.selected + 1])
    /\ file_path(entries[ret.event.selected + 1]).ok
    /\ ret.spawn.v = <<"--folder-uri", UrlLocal>>

\* C12: react returns Exit, and the session is over, after every Ok,
\* CustomInput, Cancel and CustomCommand event, whether the editor could be
\* launched or not; a failed launch is an error that react reports, and
\* nothing runs after Exit (no retry); CustomCommand always fails.  The
\* session stays open exactly after Complete (Reset) and after a DeleteEntry
\* whose write succeeded (Reload).
C12_OnlyCompleteAndDeleteStayOpen ==
    [][/\ phase # "exited"
       /\ ret'.op = "react" =>
             /\ ret'.event.kind \in {"Ok", "CustomInput", "Cancel", "CustomCommand"}
                   => (ret'.action = "Exit" /\ phase' = "exited")
             /\ ret'.event.kind \in {"Ok", "CustomInput"}
                   => (ret'.spawn.some /\ ret'.res \in {Ok("Exit"), Err("Could not open entry"),
                                                        Err("Could not execute VSCode")})
             /\ ret'.event.kind = "CustomCommand" => ret'.res = Err("Command not supported")
             /\ phase' \in {"ready", "exited"}
             /\ phase' = "ready" <=>
                   \/ ret'.event.kind = "Complete" /\ ret'.action = "Reset"
                   \/ ret'.event.kind = "DeleteEntry" /\ ret'.res.ok
                        /\ ret'.action = "Reload"]_vars

\* C12's case: the launch of a selected item failed and the session is over
C12_Witness ==
    /\ Reacted("Ok") /\ ~ret.res.ok
    /\ ret.action = "Exit"
    /\ phase = "exited"

\* the step is react on a Complete event
CompleteStep == ret'.op = "react" /\ ret'.event.kind = "Complete"

\* the label of the line a Complete event names, if it names one
CompletedLabel(list, h, selected) ==
    IF selected.some THEN label(list[selected.v + 1], h) ELSE Err("no line")

\* C13 as stated: Complete never exits; with a line whose label resolves
\* the input buffer becomes exactly that label and react returns Reset;
\* with no line, or a line whose label fails, the input buffer is emptied.
C13_CompleteSetsOrClears ==
    Reacted("Complete") =>
        LET l == CompletedLabel(entries, home, ret.event.selected)
        IN  /\ ret.action = "Reset" /\ phase = "ready"
            /\ input = IF l.ok THEN l.v ELSE <<>>

\* C13: Complete never exits and always returns Reset; with a line whose
\* label resolves the input buffer becomes exactly that label; with no
\* line, or a line whose label fails, the input buffer is left as it was.
C13_CompleteSetsOrKeeps ==
    [][CompleteStep =>
          LET l == CompletedLabel(entries, home, ret'.event.selected)
          IN  /\ ret'.action = "Reset" /\ phase' = "ready"
              /\ input' = IF l.ok THEN l.v ELSE input]_vars

\* C13's case: Complete on a line without a label (a remote folder) after
\* the user typed a text, which is still in the buffer
C13_Witness ==
    /\ Reacted("Complete") /\ ret.event.selected.some
    /\ ~label(entries[ret.event.selected.v + 1], home).ok
    /\ ret.action = "Reset" /\ phase = "ready"
    /\ input = <<"~", "proj">>

\* s is t with some of its elements left out, the others in t's order
RECURSIVE IsSubseq(_, _)
IsSubseq(s, t) ==
    IF s = <<>> THEN TRUE
    ELSE IF t = <<>> THEN FALSE
    ELSE IF Head(s) = Head(t) THEN IsSubseq(Tail(s), Tail(t))
    ELSE IsSubseq(s, Tail(t))

\* C14: every react step on an event other than DeleteEntry (Ok,
\* CustomInput, Complete, Cancel, CustomCommand) leaves the mode's list and
\* the database as they were.  The list is what init read from the store,
\* and every step after init leaves it an order-preserving subsequence of
\* what it was (nothing added, nothing moved), so that it is always an
\* order-preserving subsequence of the list init loaded; a DeleteEntry
\* shortens it by one.
C14_OnlyDeleteChangesState ==
    [][/\ (ret'.op = "react" /\ ret'.event.kind # "DeleteEntry")
             => (entries' = entries /\ db' = db)
       /\ ret'.op = "init"
             => /\ ret'.res = recently_opened_from_storage(db, FALSE)
                /\ entries' = IF ret'.res.ok THEN ret'.res.v ELSE <<>>
       /\ ret'.op # "init" => IsSubseq(entries', entries)
       /\ (ret'.op = "react" /\ ret'.event.kind = "DeleteEntry")
             => Len(entries') = Len(entries) - 1]_vars

\* C14's case: a Complete event was handled with a list of two entries,
\* which the store holds as the mode would write them
C14_Witness ==
    /\ Reacted("Complete")
    /\ Len(entries) = 2
    /\ db.row = entries_json(entries)
    /\ recently_opened_from_storage(db, FALSE) = Ok(entries)

\* C19: a successful delete writes the mode's list and nothing else of the
\* row it replaces: the mode's list before the delete is what the stored
\* array reads as (its decodable elements, in order), and the stored array
\* after it is those elements without the deleted one, each decoding to
\* the same item; the elements that did not decode are not in the store
\* any more.
C19_DeleteDropsUndecodable ==
    [][(DeleteStep /\ ret'.action = "Reload") =>
          LET before == StoredArray.v
              after == StoredArray'.v
              kept == remove(entries, ret'.event.selected)
          IN  /\ recently_opened_from_storage(db, FALSE) = Ok(entries)
              /\ Len(after) = Len(entries) - 1
              /\ \A k \in 1..Len(after) : deserialize_Recent(after[k]) = Ok(kept[k])
              /\ \A j \in 1..Len(before) :
                    ~deserialize_Recent(before[j]).ok
                        => \A k \in 1..Len(after) : after[k] # before[j]]_vars

\* C19's case: after a delete the store holds what is left of the mode's
\* list, and no element that does not decode
C19_Witness ==
    /\ Reacted("DeleteEntry") /\ ret.action = "Reload"
    /\ Len(entries) >= 1
    /\ db.access = "rw"
    /\ StoredArray = Some([k \in 1..Len(entries) |-> serialize_Recent(entries[k])])
    /\ \A k \in 1..Len(StoredArray.v) : StoredArray.v[k] # ElemUnknown

----------------------------------------------------------------------------
(* Properties of tildify and untildify (SpecPath) *)

\* the path lies under the home directory h.v (or is it)
UnderHome(path, h) ==
    /\ Len(path) >= Len(h.v)
    /\ \A k \in 1..Len(h.v) : path[k] = h.v[k]

\* C15: with the home directory known, tildify turns a path under home
\* into ~ followed by the components after home, and untildify applied to
\* that result gives the path back; tildify returns a path outside home
\* unchanged; untildify returns a text whose first component is not ~
\* unchanged; and with the home directory unknown both return their input.
C15_TildifyUntildifyInverse ==
    [][/\ (ret'.op = "tildify" /\ home.some /\ UnderHome(input, home))
             => /\ ret'.res = <<"~">> \o SubSeq(input, Len(home.v) + 1, Len(input))
                /\ untildify(ret'.res, home) = input
       /\ (ret.op = "tildify" /\ ret'.op = "untildify" /\ home.some
             /\ UnderHome(ret.arg, home))
             => ret'.res = ret.arg
       /\ (ret'.op = "tildify" /\ home.some /\ ~UnderHome(input, home))
             => ret'.res = input
       /\ (ret'.op = "untildify" /\ (input = <<>> \/ input[1] # "~"))
             => ret'.res = input
       /\ (ret'.op \in {"tildify", "untildify"} /\ ~home.some)
             => ret'.res = input]_vars

\* C15's case: a path under home was tildified and then untildified
C15_Witness ==
    /\ ret.op = "untildify" /\ ret.after = "tildify"
    /\ home.some
    /\ ret.arg = <<"~", "proj", "u">>
    /\ ret.res = Home \o <<"proj", "u">>
    /\ input = ret.res

----------------------------------------------------------------------------
(* Properties of decoded items (SpecBin) *)

\* the remoteAuthority of a stored element that has a shape
StoredRemote(e) ==
    IF "remoteAuthority" \in DOMAIN e.o /\ e.o["remoteAuthority"].t = "str"
    THEN Some(e.o["remoteAuthority"].s)
    ELSE None

\* C16 as stated: every item read from the store that has a remote
\* authority is not local, so a read with local_only = true returns no item
\* that has a remote authority.
C16_RemoteImpliesNonLocal ==
    (ret.op = "main" /\ ret.res.ok) =>
        \A k \in 1..Len(ret.res.v) :
            /\ remote(ret.res.v[k]).some => ~is_local(ret.res.v[k])
            /\ ret.local_only => ~remote(ret.res.v[k]).some

\* C16: for every item decoded from the store, remote() is the element's
\* remoteAuthority and is_local() is whether the locator's scheme is `file`,
\* each whatever the other is; a read with local_only = true returns only
\* local items, and it keeps every decodable element with a `file` locator
\* that carries a remote authority.
C16_RemoteIndependentOfLocality ==
    (ret.op = "main" /\ ReadHadArray) =>
        LET arr == StoredArray.v
            decodable == {k \in 1..Len(arr) : MatchesAShape(arr[k])}
        IN  /\ ret.res.ok
            /\ \A k \in decodable :
                  LET r == deserialize_Recent(arr[k]).v
                  IN  /\ remote(r) = StoredRemote(arr[k])
                      /\ is_local(r) <=> HasFileLocator(arr[k])
                      /\ (ret.local_only /\ HasFileLocator(arr[k]))
                            => \E j \in 1..Len(ret.res.v) : ret.res.v[j] = r
            /\ ret.local_only => \A j \in 1..Len(ret.res.v) : is_local(ret.res.v[j])

\* C16's case: a folder with a `file` locator and a remote authority was
\* read with local_only = true and is in the result
C16_Witness ==
    /\ ret.op = "main" /\ ret.local_only /\ ret.res.ok
    /\ Len(ret.res.v) >= 1
    /\ remote(ret.res.v[1]) = Some(RemoteText)
    /\ is_local(ret.res.v[1])
    /\ StoredArray.v[1] = ElemLocalWithRemote

\* every order in which the three variants can be tried
VariantOrders ==
    {o \in [1..3 -> {"Workspace", "Folder", "File"}] :
        \A i, j \in 1..3 : i # j => o[i] # o[j]}

\* the variants whose shape the element has
MatchingVariants(e) ==
    {variant \in {"Workspace", "Folder", "File"} : deserialize_variant(e, variant).ok}

\* C18 as stated: every element of the stored array, also one with more
\* than one of workspace, folderUri and fileUri, decodes to the same item,
\* or is dropped the same, in whatever order the three variants are tried.
C18_OrderOfVariantsImmaterial ==
    (ret.op = "main" /\ ReadHadArray) =>
        \A k \in 1..Len(StoredArray.v), order \in VariantOrders :
            deserialize_untagged(StoredArray.v[k], order)
                = deserialize_Recent(StoredArray.v[k])

\* C18: an element decodes as the first of Workspace, Folder, File (the
\* order of declaration) whose shape it has, and is dropped when it has
\* none; the order is immaterial exactly for the elements that have the
\* shape of at most one variant; an element with the shapes of several
\* is read as the first of them in the order of declaration.
C18_FirstDeclaredVariantWins ==
    (ret.op = "main" /\ ReadHadArray) =>
        \A k \in 1..Len(StoredArray.v) :
            LET e == StoredArray.v[k]
                d == deserialize_Recent(e)
            IN  /\ d = IF deserialize_variant(e, "Workspace").ok
                       THEN deserialize_variant(e, "Workspace")
                       ELSE IF deserialize_variant(e, "Folder").ok
                       THEN deserialize_variant(e, "Folder")
                       ELSE IF deserialize_variant(e, "File").ok
                       THEN deserialize_variant(e, "File")
                       ELSE Err("data did not match any variant of untagged enum Recent")
                /\ (Cardinality(MatchingVariants(e)) <= 1) <=>
                      \A order \in VariantOrders : deserialize_untagged(e, order) = d
                /\ (d.ok /\ ~ret.local_only)
                      => \E j \in 1..Len(ret.res.v) : ret.res.v[j] = d.v

\* C18's case: an element with both folderUri and fileUri was read, as a
\* Folder
C18_Witness ==
    /\ ret.op = "main" /\ ~ret.local_only /\ ReadHadArray
    /\ Len(StoredArray.v) >= 1
    /\ StoredArray.v[1] = ElemFolderAndFile
    /\ MatchingVariants(StoredArray.v[1]) = {"Folder", "File"}
    /\ ret.res.ok /\ ret.res.v[1].variant = "Folder"

----------------------------------------------------------------------------
(* Properties of the session beside the editor (SpecEditor) *)

\* C17: a DeleteEntry after the editor rewrote the history row behaves as
\* if the editor had not written: it removes the selected element from the
\* mode's own list, its write succeeds whenever the database is writable,
\* and the row then holds exactly the mode's list, so nothing of what the
\* editor wrote is left in the store.
C17_DeleteOverwritesEditorsRow ==
    [][(DeleteStep /\ rewritten) =>
          /\ WithoutIndex(entries', entries, ret'.event.selected)
          /\ ret'.res.ok <=> db.access = "rw"
          /\ ret'.res.ok =>
                /\ ret'.action = "Reload"
                /\ db'.row = entries_json(entries')
                /\ recently_opened_from_storage(db', FALSE) = Ok(entries')
                /\ \A k \in 1..Len(JIndex(db'.row, "entries").a) :
                      JIndex(db'.row, "entries").a[k] # ElemEditor]_vars

\* C17's case: the editor rewrote the row after init, then a delete
\* succeeded and the row holds the one entry the mode has left
C17_Witness ==
    /\ Reacted("DeleteEntry") /\ ret.action = "Reload"
    /\ rewritten
    /\ Len(entries) = 1
    /\ db.row = entries_json(entries)

====
